---- MODULE Spec2Model ----
(***************************************************************************)
(* A model of the ring(a) command-pipeline engine: the sequential runner   *)
(* Thread (src/src/Thread.js), the dispatch handle RingaEvent and the      *)
(* CommandFactory (src/unnamed/part_000), the argument resolver            *)
(* buildArgumentsFromRingaEvent (src/src/util/executors.js) and the        *)
(* conditional executor exercised by src/tests/IifExecutor.test.js.        *)
(*                                                                         *)
(* JavaScript runs every handler to completion, so each handler, with all  *)
(* the calls it makes, is one action.  A setTimeout(f, 0) is a pending     *)
(* timer that a later action fires.                                        *)
(***************************************************************************)
EXTENDS Integers, Sequences, FiniteSets, TLC

VARIABLES
  DEV,            \* the build flag __DEV__
  \* ---- Thread (src/src/Thread.js) ----
  all,            \* Thread.all: the live container, executors in insertion order
  index,          \* Thread.index (Undefined before the first run)
  running,        \* Thread.running
  ringaEvent,     \* Thread.ringaEvent
  doneHandler,    \* Thread.doneHandler (the caller's onDone)
  failHandler,    \* Thread.failHandler (the caller's onFail)
  error,          \* Thread.error
  factoryLen,     \* Thread.threadFactory.all.length
  state,          \* each built executor's own state
  destroyedExecutors, \* executors on which destroy(true) was called
  timers,         \* pending setTimeout(executeNext, 0) callbacks
  doneCalls,      \* the sequence of onDone invocations (the handler invoked)
  failCalls,      \* the sequence of onFail invocations
  execLog,        \* the executors whose _execute was called, in call order
  consoleErrors,  \* console.error calls of _finCouldNotFindError
  fatals,         \* the executors that signalled fail with the kill flag set
  killed,         \* "no", or how kill() found the thread: "idle" or "inFlight"
  runs,           \* the number of run() calls that passed the guards
  destroyed,      \* Thread.destroyed
  \* ---- RingaEvent (src/unnamed/part_000) ----
  dispatched,     \* RingaEvent.dispatched
  catchers,       \* RingaEvent.catchers: the controllers handling the event
  _catchers,      \* RingaEvent._catchers: the controllers done handling it
  caught,         \* RingaEvent.__caught
  errors,         \* RingaEvent._errors (<<>> while undefined)
  dispatchedEvents, \* RingaEvent.dispatchedEvents: the log of notifications
  deliveries,     \* the number of bus.dispatchEvent calls
  nonFatalErrors, \* the errors passed to _fail without the kill flag
  detail,         \* RingaEvent.detail: the value bag (own keys and their values)
  listeners,      \* RingaEvent.listeners: per notification type, the listeners in order
  listenerCalls,  \* the invocations of the callers' handlers, in call order
  lastController, \* the controller passed to the last _caught/_uncatch/_fail/_done
  lastListener,   \* the type and the function of the last listener registration
  _lastPromiseResult, \* RingaEvent._lastPromiseResult of each event of a chain
  _lastPromiseError,  \* RingaEvent._lastPromiseError of each event of a chain
  lastEvent,      \* RingaEvent.lastEvent of each: the event that caused it
  returned,       \* the event whose getter was last read and the value it returned
  \* ---- buildArgumentsFromRingaEvent (src/src/util/executors.js) ----
  injections,     \* executor.controller.options.injections
  _injections,    \* executor._injections: the executor's cached table
  expectedArguments, \* the argument names of the last call
  args,           \* the array the last call returned
  message,        \* what the Error thrown by the last call names
  \* ---- CommandFactory (src/unnamed/part_000) ----
  executee,       \* CommandFactory.executee, by its run-time shape
  argNames,       \* CommandFactory.argNames (FALSE while undefined)
  built,          \* what the build calls returned or threw, in call order
  \* ---- the conditional executor built by iif(condition, trueExecutor, falseExecutor) ----
  tree,           \* what sits at each place of a conditional and its branches
  iifState,       \* the state of the executor at each place
  condition,      \* the value the condition of the conditional at each place returned
  handlerCalls,   \* the places of the branch handlers invoked, in call order
  iifResults,     \* the done/fail the outermost conditional signalled
  \* ----
  lastCall        \* the last API call and whether it threw

threadVars == <<all, index, running, ringaEvent, doneHandler, failHandler, error,
                factoryLen, state, destroyedExecutors, timers, doneCalls,
                failCalls, execLog, consoleErrors, fatals, killed, runs, destroyed>>

eventVars == <<dispatched, catchers, _catchers, caught, errors, dispatchedEvents,
               deliveries, nonFatalErrors, detail, listeners, listenerCalls,
               lastController, lastListener, _lastPromiseResult,
               _lastPromiseError, lastEvent, returned>>

resolverVars == <<injections, _injections, expectedArguments, args, message>>

factoryVars == <<executee, argNames, built>>

iifVars == <<tree, iifState, condition, handlerCalls, iifResults>>

\* what setting and reading the promise fields of an event leaves alone
promiseRest == <<DEV, threadVars, dispatched, catchers, _catchers, caught, errors,
                 dispatchedEvents, deliveries, nonFatalErrors, detail, listeners,
                 listenerCalls, lastController, lastListener, resolverVars,
                 factoryVars, iifVars>>

----------------------------------------------------------------------------
(* Bounds *)

\* the longest factory list
MaxN == 3
\* the number of run() calls the environment makes in SpecRerun
MaxRuns == 2

\* the number of controllers that may catch one event
MaxControllers == 2
\* the number of _caught calls on one event
MaxCaught == 2
\* the number of notifications one event emits
MaxEvents == 2
\* the number of errors pushed on one event
MaxPushed == 1
\* the number of deliveries of one event to the bus
MaxDeliveries == 2
\* the longest list of declared parameter names
MaxArgs == 2
\* the number of listeners registered for one notification type
MaxListeners == 2
\* the number of build calls on one factory
MaxBuilds == 2
\* the number of events of a causal chain
MaxChain == 3

\* the value of a field that was never assigned
Undefined == 0 - 1

NOT_STARTED == "NOT_STARTED"
RUNNING == "RUNNING"
DONE_STATE == "DONE"
FAILED == "FAILED"

\* what an executor's _execute does with its two continuations
SyncOutcomes == {"done", "fail", "fatal", "throw"}
Outcomes == SyncOutcomes \cup {"async"}
\* what an executor that went asynchronous signals later
Signals == {"done", "fail", "fatal"}

----------------------------------------------------------------------------
(* The container Thread inherits from RingaHashArray: an insertion-ordered *)
(* collection with membership test and removal.                            *)

\* all[i] with a JavaScript (0-based) index; Undefined when out of range
At(list, i) == IF i >= 0 /\ i < Len(list) THEN list[i + 1] ELSE Undefined

has(list, x) == \E i \in 1..Len(list) : list[i] = x

remove(list, x) == SelectSeq(list, LAMBDA y : y # x)

\* the error value an executor signals fail with: one per executor
ErrorOf(executor) == [name |-> "Error", of |-> executor]
\* the error an executor's _execute throws, caught at Thread.js:70
Raised(executor) == [name |-> "Raised", of |-> executor]
\* the TypeError of calling _execute on undefined
TypeError == [name |-> "TypeError", of |-> Undefined]
\* Thread.error before any failure
NoThreadError == [name |-> "undefined", of |-> Undefined]

\* the executors that were started and have not signalled yet
RunningExecutors == {e \in DOMAIN state : state[e] = RUNNING}

\* The thread and what its callers observe, as one record the handlers transform.
Cur == [all |-> all, index |-> index, running |-> running, ringaEvent |-> ringaEvent,
        doneHandler |-> doneHandler, failHandler |-> failHandler, error |-> error,
        state |-> state, destroyedExecutors |-> destroyedExecutors,
        timers |-> timers, doneCalls |-> doneCalls, failCalls |-> failCalls,
        execLog |-> execLog, consoleErrors |-> consoleErrors, fatals |-> fatals,
        destroyed |-> destroyed]

----------------------------------------------------------------------------
(* Thread.removeExecutor, Thread.js:80-90 *)
removeExecutor(s, executor) ==
  IF has(s.all, executor) THEN [s EXCEPT !.all = remove(s.all, executor)] ELSE s

(* Thread._finCouldNotFindError, Thread.js:146-168: it returns at once on a *)
(* destroyed thread and reports through console.error on any other.         *)
_finCouldNotFindError(s) ==
  IF s.destroyed THEN s ELSE [s EXCEPT !.consoleErrors = @ + 1]

\* the lookup both handlers start with, Thread.js:96-102 and 121-127
destroyCurrent(s) ==
  LET executor == At(s.all, s.index) IN
  IF executor = Undefined
    THEN _finCouldNotFindError(s)
    ELSE [s EXCEPT !.destroyedExecutors = @ \cup {executor}]

\* a done handler that starts the next executor itself instead of setting a timer
DoneHandlerNotDeferring(s) ==
  LET executor == At(s.all, s.index)
      s1 == destroyCurrent(s)
      s2 == [s1 EXCEPT !.index = @ + 1]
      next == At(s2.all, s2.index)
  IN IF s2.index < Len(s2.all)
       THEN [removeExecutor(s2, At(s2.all, s2.index - 1))
               EXCEPT !.state[next] = RUNNING, !.execLog = Append(@, next)]
       ELSE removeExecutor([s2 EXCEPT !.doneCalls = Append(@, s2.doneHandler)],
                           executor)

\* a done handler that sets no timer when executors remain
DoneHandlerNotScheduling(s) ==
  LET executor == At(s.all, s.index)
      s1 == destroyCurrent(s)
      s2 == [s1 EXCEPT !.index = @ + 1]
  IN IF s2.index < Len(s2.all)
       THEN s2
       ELSE removeExecutor([s2 EXCEPT !.doneCalls = Append(@, s2.doneHandler)],
                           executor)

(* Thread._executorDoneHandler, Thread.js:95-118 *)
_executorDoneHandler(s) ==
  LET executor == At(s.all, s.index)
      s1 == destroyCurrent(s)
      s2 == [s1 EXCEPT !.index = @ + 1]
  IN IF s2.index < Len(s2.all)
       THEN [s2 EXCEPT !.timers = @ + 1]
       ELSE removeExecutor([s2 EXCEPT !.doneCalls = Append(@, s2.doneHandler)],
                           executor)

\* a fail handler that continues whatever the kill flag says
FailHandlerIgnoringKill(s, err, kill) ==
  LET s1 == destroyCurrent(s)
      s2 == [s1 EXCEPT !.error = err,
                       !.failCalls = Append(@, [handler |-> s1.failHandler,
                                                error |-> err, kill |-> kill])]
  IN _executorDoneHandler(s2)

(* Thread._executorFailHandler, Thread.js:120-144 *)
_executorFailHandler(s, err, kill) ==
  LET executor == At(s.all, s.index)
      s1 == destroyCurrent(s)
      s2 == [s1 EXCEPT !.error = err,
                       !.failCalls = Append(@, [handler |-> s1.failHandler,
                                                error |-> err, kill |-> kill])]
  IN IF ~kill THEN _executorDoneHandler(s2) ELSE removeExecutor(s2, executor)

(* An executor's _execute(done, fail): it enters RUNNING and either signals *)
(* before returning, throws, or returns with the signal still to come.      *)
execute(s, executor, o) ==
  LET s1 == [s EXCEPT !.state[executor] = RUNNING,
                      !.execLog = Append(@, executor)]
  IN CASE o = "done"  -> _executorDoneHandler([s1 EXCEPT !.state[executor] = DONE_STATE])
       [] o = "fail"  -> _executorFailHandler([s1 EXCEPT !.state[executor] = FAILED],
                                             ErrorOf(executor), FALSE)
       [] o = "fatal" -> _executorFailHandler([s1 EXCEPT !.state[executor] = FAILED,
                                                         !.fatals = @ \cup {executor}],
                                             ErrorOf(executor), TRUE)
       [] o = "throw" -> [s1 EXCEPT !.state[executor] = FAILED]
       [] OTHER       -> s1

\* an executeNext that does not wait for an executor that returned without signalling
ExecuteNextNotWaiting(s, o) ==
  LET executor == At(s.all, s.index)
      s1 == IF s.index > 0 THEN removeExecutor(s, At(s.all, s.index - 1)) ELSE s
  IN IF executor = Undefined
       THEN _executorFailHandler(s1, TypeError, FALSE)
       ELSE IF o = "throw"
              THEN _executorFailHandler(execute(s1, executor, o), Raised(executor), FALSE)
              ELSE IF o = "async"
                     THEN _executorDoneHandler(execute(s1, executor, o))
                     ELSE execute(s1, executor, o)

(* Thread.executeNext, Thread.js:60-74 *)
executeNext(s, o) ==
  LET executor == At(s.all, s.index)
      s1 == IF s.index > 0 THEN removeExecutor(s, At(s.all, s.index - 1)) ELSE s
  IN IF executor = Undefined
       THEN _executorFailHandler(s1, TypeError, FALSE)
       ELSE IF o = "throw"
              THEN _executorFailHandler(execute(s1, executor, o), Raised(executor), FALSE)
              ELSE execute(s1, executor, o)

(* Thread.buildExecutors, Thread.js:27-33: one fresh executor per factory *)
buildExecutors(s) ==
  LET first == Cardinality(DOMAIN s.state)
      fresh == first + 1 .. first + factoryLen
  IN [s EXCEPT !.all = @ \o [i \in 1..factoryLen |-> first + i],
               !.state = [e \in DOMAIN s.state \cup fresh |->
                            IF e \in fresh THEN NOT_STARTED ELSE s.state[e]]]

\* the assignment of a handler's result to the thread's variables
Becomes(s) ==
  /\ all' = s.all
  /\ index' = s.index
  /\ running' = s.running
  /\ ringaEvent' = s.ringaEvent
  /\ doneHandler' = s.doneHandler
  /\ failHandler' = s.failHandler
  /\ error' = s.error
  /\ state' = s.state
  /\ destroyedExecutors' = s.destroyedExecutors
  /\ timers' = s.timers
  /\ doneCalls' = s.doneCalls
  /\ failCalls' = s.failCalls
  /\ execLog' = s.execLog
  /\ consoleErrors' = s.consoleErrors
  /\ fatals' = s.fatals
  /\ destroyed' = s.destroyed

(* Thread.run, Thread.js:35-58.  The caller passes a dispatch handle and    *)
(* its two callbacks; call number k passes the callbacks named k.           *)
run(o) ==
  LET k == runs + 1 IN
  IF DEV /\ running
    THEN /\ lastCall' = [op |-> "run", threw |-> TRUE]
         /\ UNCHANGED threadVars
    ELSE IF DEV /\ factoryLen = 0
      THEN /\ lastCall' = [op |-> "run", threw |-> TRUE]
           /\ UNCHANGED threadVars
      ELSE /\ Becomes(executeNext(
                [buildExecutors([Cur EXCEPT !.ringaEvent = k, !.doneHandler = k,
                                            !.failHandler = k])
                   EXCEPT !.index = 0], o))
           /\ runs' = k
           /\ lastCall' = [op |-> "run", threw |-> FALSE]
           /\ UNCHANGED <<factoryLen, killed>>

(* Thread.kill, Thread.js:76-78 *)
kill ==
  /\ running' = FALSE
  /\ killed' = IF RunningExecutors # {} \/ killed = "inFlight" THEN "inFlight" ELSE "idle"
  /\ lastCall' = [op |-> "kill", threw |-> FALSE]
  /\ UNCHANGED <<all, index, ringaEvent, doneHandler, failHandler, error,
                 factoryLen, state, destroyedExecutors, timers, doneCalls,
                 failCalls, execLog, consoleErrors, fatals, runs, destroyed>>

(* The timer set at Thread.js:113 fires: executeNext runs in a later turn. *)
timeout(o) ==
  /\ timers > 0
  /\ Becomes(executeNext([Cur EXCEPT !.timers = @ - 1], o))
  /\ lastCall' = [op |-> "timeout", threw |-> FALSE]
  /\ UNCHANGED <<factoryLen, killed, runs>>

(* A running executor signals through the continuation it was given. *)
signal(executor, sig) ==
  /\ executor \in DOMAIN state
  /\ state[executor] = RUNNING
  /\ LET s == [Cur EXCEPT !.state[executor] =
                            IF sig = "done" THEN DONE_STATE ELSE FAILED,
                          !.fatals = IF sig = "fatal" THEN @ \cup {executor} ELSE @]
     IN Becomes(CASE sig = "done"  -> _executorDoneHandler(s)
                  [] sig = "fail"  -> _executorFailHandler(s, ErrorOf(executor), FALSE)
                  [] OTHER         -> _executorFailHandler(s, ErrorOf(executor), TRUE))
  /\ lastCall' = [op |-> "signal", threw |-> FALSE]
  /\ UNCHANGED <<factoryLen, killed, runs>>

----------------------------------------------------------------------------
(* buildArgumentsFromRingaEvent, src/src/util/executors.js:33-77 *)

\* the names a function may declare as its parameters
Names == {"someInjection", "someProp", "done"}
\* the keys of the table built at executors.js:40-51; each key's value is
\* written as the key itself
WellKnown == {"$controller", "$thread", "$ringaEvent", "$customEvent", "$target",
              "$detail", "done", "fail", "$lastPromiseResult", "$lastPromiseError"}
\* an object without own keys, which also stands for an unset _injections
NoInjections == [k \in {} |-> ""]
\* no executor: the undefined that addDoneListener passes at part_000:519
NoExecutor == [controller |-> FALSE]
\* the value bags: detail.ringaEvent is set by the constructor (part_000:118),
\* the other keys by the dispatcher
Details ==
  {[k \in K \cup {"ringaEvent"} |-> IF k = "ringaEvent" THEN "this" ELSE "whatever"] :
     K \in SUBSET Names}
\* the values a controller injects
InjectedValues == {"test"}

hasOwnProperty(obj, key) == key \in DOMAIN obj

\* for (key in from) into[key] = from[key]
merge(into, from) ==
  [k \in DOMAIN into \cup DOMAIN from |-> IF k \in DOMAIN from THEN from[k] ELSE into[k]]

TypeErrorUndefined == "TypeError: cannot read property of undefined"
NotProvided == "was not provided on the dispatched ringaEvent"

\* a resolver that leaves a name it cannot resolve out of the array it returns
MissingLeftOut(executor, expected, bag) ==
  LET table == merge(IF executor._injections = NoInjections
                       THEN [k \in WellKnown |-> k] ELSE executor._injections,
                     executor.injections)
      resolvable(n) == hasOwnProperty(bag, n) \/ hasOwnProperty(table, n)
      found == SelectSeq(expected, resolvable)
  IN [args |-> [i \in 1..Len(found) |->
                  IF hasOwnProperty(bag, found[i])
                    THEN bag[found[i]] ELSE table[found[i]]],
      threw |-> "", _injections |-> table, missing |-> ""]

\* a resolver that looks in the injections before the value bag
InjectionsFirst(executor, expected, bag) ==
  LET table == merge(IF executor._injections = NoInjections
                       THEN [k \in WellKnown |-> k] ELSE executor._injections,
                     executor.injections)
      resolvable(n) == hasOwnProperty(bag, n) \/ hasOwnProperty(table, n)
      missing == {i \in 1..Len(expected) : ~resolvable(expected[i])}
  IN IF missing # {}
       THEN [args |-> <<>>, threw |-> NotProvided, _injections |-> table,
             missing |-> expected[CHOOSE i \in missing : \A j \in missing : i <= j]]
       ELSE [args |-> [i \in 1..Len(expected) |->
                        IF hasOwnProperty(table, expected[i])
                          THEN table[expected[i]] ELSE bag[expected[i]]],
             threw |-> "", _injections |-> table, missing |-> ""]

(* buildArgumentsFromRingaEvent, executors.js:33-77.  The result has the     *)
(* array returned, what was thrown, the argument the error names and the    *)
(* table left on the executor.                                              *)
buildArgumentsFromRingaEvent(executor, expected, bag) ==
  IF executor = NoExecutor
    THEN [args |-> <<>>, threw |-> TypeErrorUndefined, _injections |-> NoInjections,
          missing |-> ""]
    ELSE
  LET table == merge(IF executor._injections = NoInjections
                       THEN [k \in WellKnown |-> k] ELSE executor._injections,
                     executor.injections)
      resolvable(n) == hasOwnProperty(bag, n) \/ hasOwnProperty(table, n)
      missing == {i \in 1..Len(expected) : ~resolvable(expected[i])}
  IN IF missing # {}
       THEN [args |-> <<>>, threw |-> NotProvided, _injections |-> table,
             missing |-> expected[CHOOSE i \in missing : \A j \in missing : i <= j]]
       ELSE [args |-> [i \in 1..Len(expected) |->
                        IF hasOwnProperty(bag, expected[i])
                          THEN bag[expected[i]] ELSE table[expected[i]]],
             threw |-> "", _injections |-> table, missing |-> ""]

\* the message of the Error of executors.js:64-71, by the names it holds: the
\* argument not provided and the joined expectedArguments
Message(argName, expected) == [argName |-> argName, expectedArguments |-> expected]
NoMessage == Message("", <<>>)

\* the executor whose function is being called, with its controller's options
CurExecutor == [controller |-> TRUE, _injections |-> _injections,
                injections |-> injections]

\* an executor resolves the arguments of its function against the event
BuildArguments ==
  \E n \in 0..MaxArgs : \E expected \in [1..n -> Names] :
    LET r == buildArgumentsFromRingaEvent(CurExecutor, expected, detail)
    IN /\ _injections' = r._injections
       /\ expectedArguments' = expected
       /\ args' = r.args
       /\ message' = IF r.threw = NotProvided THEN Message(r.missing, expected)
                                              ELSE NoMessage
       /\ lastCall' = [op |-> "buildArguments", threw |-> r.threw # ""]
       /\ UNCHANGED <<DEV, threadVars, eventVars, iifVars, factoryVars, injections>>

\* application code sets a named value on controller.options.injections
Inject ==
  \E k \in Names, v \in InjectedValues :
    /\ ~(hasOwnProperty(injections, k) /\ injections[k] = v)
    /\ injections' = merge(injections, [j \in {k} |-> v])
    /\ lastCall' = [op |-> "inject", threw |-> FALSE]
    /\ UNCHANGED <<DEV, threadVars, eventVars, iifVars, factoryVars, _injections,
                   expectedArguments, args, message>>

ResolverInit ==
  /\ injections = NoInjections
  /\ _injections = NoInjections
  /\ expectedArguments = <<>>
  /\ args = <<>>
  /\ message = NoMessage

(* The owner of a running thread is torn down: the thread is flagged as     *)
(* destroyed and its executors are evicted from the container.  What the    *)
(* executors already started do afterwards is theirs to decide.             *)
destroy ==
  /\ runs > 0
  /\ ~destroyed
  /\ destroyed' = TRUE
  /\ all' = <<>>
  /\ lastCall' = [op |-> "destroy", threw |-> FALSE]
  /\ UNCHANGED <<index, running, ringaEvent, doneHandler, failHandler, error,
                 factoryLen, state, destroyedExecutors, timers, doneCalls,
                 failCalls, execLog, consoleErrors, fatals, killed, runs>>

----------------------------------------------------------------------------
(* CommandFactory, src/unnamed/part_000:10-59 *)

\* An executee by what build asks of it: typeof executee, whether it is null
\* or undefined, typeof executee.then, whether executee.prototype is an
\* instance of CommandAbstract, and whether executee is an instance of Array
\* or of RingEventFactory.
Primitive(type) ==
  [type |-> type, nullish |-> FALSE, then |-> "undefined", command |-> FALSE,
   array |-> FALSE, factory |-> FALSE]

Executees ==
  {Primitive(ty) : ty \in {"string", "number", "boolean", "symbol"}}
  \cup {[Primitive(ty) EXCEPT !.nullish = TRUE] : ty \in {"undefined", "object"}}
  \cup {[Primitive("function") EXCEPT !.then = th, !.command = c] :
          th \in {"undefined", "function", "string"}, c \in BOOLEAN}
  \cup {[Primitive("object") EXCEPT !.then = th, !.array = (k = "Array"),
                                   !.factory = (k = "RingEventFactory")] :
          th \in {"undefined", "function", "string"},
          k \in {"Object", "Array", "RingEventFactory"}}

\* what a build call gave: the class of the executor returned and what it was
\* constructed from, or what was thrown and the type the message names
Returned(class, from) == [class |-> class, from |-> from, threw |-> "", names |-> ""]
Thrown(what, type) == [class |-> "", from |-> "", threw |-> what, names |-> type]

NotSupported == "the type of executee you provided is not supported by Ring"
\* the message of line 57 is built by string concatenation with the executee
TypeErrorSymbol == "TypeError: cannot convert a Symbol value to a string"

\* a build that asks whether the executee is a function before it asks
\* whether it has a then
BuildFunctionFirst(f) ==
  LET x == f.executee IN
  IF x.type = "string" THEN
    [result |-> Returned("CommandEventWrapper", "new RingEventFactory(executee)"),
     argNames |-> f.argNames]
  ELSE IF x.type = "function" THEN
    IF x.command
      THEN [result |-> Returned("executee", IF f.argNames = FALSE THEN "introspected" ELSE "cached"),
            argNames |-> TRUE]
      ELSE [result |-> Returned("CommandFunctionWrapper", "executee"), argNames |-> f.argNames]
  ELSE IF x.nullish THEN [result |-> Thrown(TypeErrorUndefined, ""), argNames |-> f.argNames]
  ELSE IF x.then = "function" THEN
    [result |-> Returned("CommandPromiseWrapper", "executee"), argNames |-> f.argNames]
  ELSE IF x.array THEN
    [result |-> Returned("CommandsParallelWrapper", "executee"), argNames |-> f.argNames]
  ELSE IF x.type = "object" /\ x.factory THEN
    [result |-> Returned("CommandEventWrapper", "executee"), argNames |-> f.argNames]
  ELSE IF x.type = "symbol" THEN
    [result |-> Thrown(TypeErrorSymbol, ""), argNames |-> f.argNames]
  ELSE [result |-> Thrown(NotSupported, x.type), argNames |-> f.argNames]

(* CommandFactory.build, part_000:31-58.  Reading executee.then of null or  *)
(* undefined at line 35 is a TypeError.  argNames is TRUE once               *)
(* cacheArguments has stored the names (27-29, 41-44).                       *)
build(f) ==
  LET x == f.executee IN
  IF x.type = "string" THEN
    [result |-> Returned("CommandEventWrapper", "new RingEventFactory(executee)"),
     argNames |-> f.argNames]
  ELSE IF x.nullish THEN [result |-> Thrown(TypeErrorUndefined, ""), argNames |-> f.argNames]
  ELSE IF x.then = "function" THEN
    [result |-> Returned("CommandPromiseWrapper", "executee"), argNames |-> f.argNames]
  ELSE IF x.type = "function" THEN
    IF x.command
      THEN [result |-> Returned("executee", IF f.argNames = FALSE THEN "introspected" ELSE "cached"),
            argNames |-> TRUE]
      ELSE [result |-> Returned("CommandFunctionWrapper", "executee"), argNames |-> f.argNames]
  ELSE IF x.array THEN
    [result |-> Returned("CommandsParallelWrapper", "executee"), argNames |-> f.argNames]
  ELSE IF x.type = "object" /\ x.factory THEN
    [result |-> Returned("CommandEventWrapper", "executee"), argNames |-> f.argNames]
  ELSE IF x.type = "symbol" THEN
    [result |-> Thrown(TypeErrorSymbol, ""), argNames |-> f.argNames]
  ELSE [result |-> Thrown(NotSupported, x.type), argNames |-> f.argNames]

\* a thread builds the executor of one entry of its factory list
Build ==
  LET b == build([executee |-> executee, argNames |-> argNames])
  IN /\ Len(built) < MaxBuilds
     /\ built' = Append(built, b.result)
     /\ argNames' = b.argNames
     /\ lastCall' = [op |-> "build", threw |-> b.result.threw # ""]
     /\ UNCHANGED <<DEV, threadVars, eventVars, resolverVars, iifVars, executee>>

----------------------------------------------------------------------------
(* RingaEvent, src/unnamed/part_000:95-635 *)

DONE == "done"
FAIL == "fail"

\* an absent (undefined) controller, and an absent error
NoController == 0
NoError == "undefined"
Controllers == 1..MaxControllers
\* the error values callers pass
Errors == {"e1", "e2"}
\* the ReferenceError of reading the undeclared name at part_000:442
ReferenceError == "ReferenceError"

\* Array.prototype.indexOf: the first position (0-based) of x, or -1
indexOf(list, x) ==
  IF has(list, x)
    THEN (CHOOSE i \in 1..Len(list) : list[i] = x /\ \A j \in 1..(i - 1) : list[j] # x) - 1
    ELSE 0 - 1

\* Array.prototype.splice(ix, 1): what stays and what is returned
splice(list, ix) ==
  LET n == Len(list)
      start == IF ix < 0 THEN (IF n + ix > 0 THEN n + ix ELSE 0) ELSE ix
  IN IF start < n
       THEN [rest |-> [j \in 1..(n - 1) |-> IF j <= start THEN list[j] ELSE list[j + 1]],
             removed |-> <<list[start + 1]>>]
       ELSE [rest |-> list, removed |-> <<>>]

\* The event as one record the methods transform; threw names what was thrown.
CurEvent == [dispatched |-> dispatched, catchers |-> catchers, _catchers |-> _catchers,
             caught |-> caught, errors |-> errors,
             dispatchedEvents |-> dispatchedEvents, deliveries |-> deliveries,
             detail |-> detail, listeners |-> listeners,
             listenerCalls |-> listenerCalls, threw |-> ""]

\* the functions callers register, and the parameter names each declares
\* (getArgNames)
Handlers == {"h1", "h2"}
getArgNames(handler) == IF handler = "h1" THEN <<>> ELSE <<"someInjection">>
\* no function given
NoHandler == "undefined"
\* the kill argument: left out, or the flag passed to _fail
NoKill == "undefined"
KillOf(fatal) == IF fatal THEN "true" ELSE "false"

\* a function registered as it is: listeners hold the function itself
Listener(handler) == [handler |-> handler, arrow |-> 0]
\* the n-th arrow function addDoneListener created, part_000:517-521
Arrow(handler, n) == [handler |-> handler, arrow |-> n]

\* One listener is called with a notification.  A registered function is
\* called with it; an arrow of addDoneListener resolves the arguments of its
\* handler, with undefined for the executor, and applies the handler to them
\* (part_000:518-520).
call(ev, listener, notification) ==
  IF listener.arrow = 0
    THEN [ev EXCEPT !.listenerCalls =
            Append(@, [handler |-> listener.handler, with |-> <<notification>>])]
    ELSE LET r == buildArgumentsFromRingaEvent(NoExecutor,
                                               getArgNames(listener.handler), ev.detail)
         IN IF r.threw # ""
              THEN [ev EXCEPT !.threw = r.threw]
              ELSE [ev EXCEPT !.listenerCalls =
                      Append(@, [handler |-> listener.handler, with |-> r.args])]

RECURSIVE forEach(_, _, _, _)
\* list.forEach from position i on: an exception ends the iteration
forEach(ev, list, i, notification) ==
  IF i > Len(list) \/ ev.threw # "" THEN ev
  ELSE forEach(call(ev, list[i], notification), list, i + 1, notification)

(* RingaEvent._dispatchEvent, part_000:459-478.  detail is undefined in     *)
(* every call the event makes.                                              *)
_dispatchEvent(ev, type, err, killFlag) ==
  LET e1 == [ev EXCEPT !.dispatchedEvents = Append(@, [type |-> type, error |-> err])]
  IN forEach(e1, e1.listeners[type], 1,
             [type |-> type, error |-> err, kill |-> killFlag])

RECURSIVE replay(_, _, _, _)
\* the listener is called with each logged notification from position i on
replay(ev, listener, past, i) ==
  IF i > Len(past) \/ ev.threw # "" THEN ev
  ELSE replay(call(ev, listener, past[i]), listener, past, i + 1)

\* an addListener that accepts a function already registered for the type
AddListenerUnchecked(ev, eventType, listener) ==
  LET e1 == [ev EXCEPT !.listeners[eventType] = Append(@, listener)]
      past == SelectSeq(e1.dispatchedEvents, LAMBDA d : d.type = eventType)
  IN replay(e1, listener, past, 1)

\* an addListener that does not call the new listener with what was logged
AddListenerNoReplay(ev, eventType, listener) ==
  IF has(ev.listeners[eventType], listener)
    THEN [ev EXCEPT !.threw = "the same function was added as a listener twice"]
    ELSE [ev EXCEPT !.listeners[eventType] = Append(@, listener)]

(* RingaEvent.addListener, part_000:487-507.  eventType is a string in every *)
(* call modelled, so the guard at 488 does not fire.                        *)
addListener(ev, eventType, listener) ==
  IF has(ev.listeners[eventType], listener)
    THEN [ev EXCEPT !.threw = "the same function was added as a listener twice"]
    ELSE LET e1 == [ev EXCEPT !.listeners[eventType] = Append(@, listener)]
             past == SelectSeq(e1.dispatchedEvents, LAMBDA d : d.type = eventType)
         IN replay(e1, listener, past, 1)

\* the arrow functions created so far
ArrowsOf(ev) ==
  Cardinality({i \in 1..Len(ev.listeners[DONE]) : ev.listeners[DONE][i].arrow # 0})

(* RingaEvent.addDoneListener, part_000:515-522 *)
addDoneListener(ev, handler) ==
  addListener(ev, DONE, Arrow(handler, ArrowsOf(ev) + 1))

(* RingaEvent.addFailListener, part_000:531-534 *)
addFailListener(ev, handler) == addListener(ev, FAIL, Listener(handler))

(* RingaEvent.then, part_000:543-552 *)
then(ev, resolve, reject) ==
  LET e1 == IF resolve # NoHandler THEN addDoneListener(ev, resolve) ELSE ev
  IN IF e1.threw # "" THEN e1
     ELSE IF reject # NoHandler THEN addFailListener(e1, reject) ELSE e1

\* a dispatch that does not look at the dispatched flag
DispatchUnguarded(ev) == [ev EXCEPT !.dispatched = TRUE, !.deliveries = @ + 1]

(* RingaEvent.dispatch, part_000:289-344 *)
dispatch(ev) ==
  IF DEV /\ ev.dispatched
    THEN [ev EXCEPT !.threw = "events should only be dispatched once"]
    ELSE [ev EXCEPT !.dispatched = TRUE, !.deliveries = @ + 1]

(* RingaEvent._caught, part_000:352-361 *)
_caught(ev, controller) ==
  IF DEV /\ controller = NoController
    THEN [ev EXCEPT !.threw = "controller was not defined"]
    ELSE [ev EXCEPT !.caught = TRUE, !.catchers = Append(@, controller)]

\* an _uncatch that does not look whether the controller was found
UncatchUnguarded(ev, controller) ==
  LET sp == splice(ev.catchers, indexOf(ev.catchers, controller))
  IN [ev EXCEPT !.catchers = sp.rest,
                !._catchers = Append(@, IF sp.removed = <<>> THEN NoController
                                         ELSE sp.removed[1])]

(* RingaEvent._uncatch, part_000:369-379 *)
_uncatch(ev, controller) ==
  LET ix == indexOf(ev.catchers, controller)
      sp == splice(ev.catchers, ix)
  IN IF DEV /\ ix = 0 - 1
       THEN [ev EXCEPT !.threw = "controller that is uncatching could not be found"]
       ELSE [ev EXCEPT !.catchers = sp.rest,
                       !._catchers = Append(@, IF sp.removed = <<>> THEN NoController
                                                ELSE sp.removed[1])]

(* RingaEvent.pushError, part_000:415-419, which fail(error) calls, 388-391 *)
pushError(ev, err) == [ev EXCEPT !.errors = Append(@, err)]

(* RingaEvent._fail, part_000:400-408 *)
_fail(ev, controller, err, fatal) ==
  LET e1 == IF fatal THEN _uncatch(ev, controller) ELSE ev
  IN IF e1.threw # "" THEN e1 ELSE _dispatchEvent(e1, FAIL, err, KillOf(fatal))

\* a _done that announces DONE without looking at the controllers still handling
DoneNotWaiting(ev, controller) ==
  IF DEV /\ controller = NoController
    THEN [ev EXCEPT !.threw = "controller is not defined"]
    ELSE LET e1 == _uncatch(ev, controller)
         IN IF e1.threw # "" THEN e1
            ELSE IF e1.errors # <<>>
                   THEN [e1 EXCEPT !.threw = ReferenceError]
                   ELSE _dispatchEvent(e1, DONE, NoError, NoKill)

(* RingaEvent._done, part_000:429-447 *)
_done(ev, controller) ==
  IF DEV /\ controller = NoController
    THEN [ev EXCEPT !.threw = "controller is not defined"]
    ELSE LET e1 == _uncatch(ev, controller)
         IN IF e1.threw # "" THEN e1
            ELSE IF Len(e1.catchers) = 0
                   THEN IF e1.errors # <<>>
                          THEN [e1 EXCEPT !.threw = ReferenceError]
                          ELSE _dispatchEvent(e1, DONE, NoError, NoKill)
                   ELSE e1

\* the assignment of a method's result to the event's variables
EventBecomes(ev, op) ==
  /\ dispatched' = ev.dispatched
  /\ catchers' = ev.catchers
  /\ _catchers' = ev._catchers
  /\ caught' = ev.caught
  /\ errors' = ev.errors
  /\ dispatchedEvents' = ev.dispatchedEvents
  /\ deliveries' = ev.deliveries
  /\ detail' = ev.detail
  /\ listeners' = ev.listeners
  /\ listenerCalls' = ev.listenerCalls
  /\ lastCall' = [op |-> op, threw |-> ev.threw # ""]
  /\ UNCHANGED <<_lastPromiseResult, _lastPromiseError, lastEvent, returned>>

----------------------------------------------------------------------------
(* The conditional executor: iif(condition, trueExecutor, falseExecutor),   *)
(* as src/tests/IifExecutor.test.js:33-110 builds it.  A branch is omitted,  *)
(* a handler function, or another conditional.                               *)

Root == <<>>
\* the places where a conditional may sit, and the places of their branches
IifPlaces == {Root, <<"T">>, <<"F">>}
Places == IifPlaces \cup {<<"T", "T">>, <<"T", "F">>, <<"F", "T">>, <<"F", "F">>}

\* the values a condition returns, and the ones JavaScript takes as false
Values == {"true", "false", "0", "1", "''", "'a'", "undefined"}
Falsy == {"false", "0", "''", "undefined"}
Truthy(v) == v \notin Falsy

Trees ==
  {tr \in [Places -> {"iif", "handler", "omitted"}] :
     /\ tr[Root] = "iif"
     /\ \A p \in Places : Len(p) = 2 =>
          /\ tr[p] # "iif"
          /\ tr[<<p[1]>>] # "iif" => tr[p] = "omitted"}

CurIif == [state |-> iifState, condition |-> condition, calls |-> handlerCalls,
           results |-> iifResults]

RECURSIVE complete(_, _, _)
\* the executor at place p is done or has failed: a branch's done/fail is
\* forwarded as the done/fail of the conditional that ran it
complete(st, p, result) ==
  LET s1 == [st EXCEPT !.state[p] = result]
  IN IF p = Root
       THEN [s1 EXCEPT !.results = Append(@, result)]
       ELSE complete(s1, SubSeq(p, 1, Len(p) - 1), result)

\* a branch handler is invoked
runHandler(st, p, o) ==
  LET s1 == [st EXCEPT !.state[p] = RUNNING, !.calls = Append(@, p)]
  IN CASE o = "done" -> complete(s1, p, DONE_STATE)
       [] o = "fail" -> complete(s1, p, FAILED)
       [] OTHER      -> s1

RECURSIVE RunBothBranches(_, _, _, _)
\* a conditional that runs its truthy branch whatever the condition returns
\* and its falsy branch as well when the condition is falsy
RunBothBranches(st, p, vals, o) ==
  LET v == vals[Len(p) + 1]
      s1 == [st EXCEPT !.state[p] = RUNNING, !.condition[p] = v]
      branch(s, child) ==
        CASE tree[child] = "omitted" -> s
          [] tree[child] = "handler" -> runHandler(s, child, o)
          [] OTHER -> RunBothBranches(s, child, vals, o)
      s2 == branch(s1, Append(p, "T"))
  IN IF Truthy(v) THEN s2 ELSE branch(s2, Append(p, "F"))

RECURSIVE InnerBranchSwapped(_, _, _, _)
\* a conditional that, when nested in a branch, runs the branch its condition
\* did not choose
InnerBranchSwapped(st, p, vals, o) ==
  LET v == vals[Len(p) + 1]
      child == Append(p, IF Truthy(v) = (p = Root) THEN "T" ELSE "F")
      s1 == [st EXCEPT !.state[p] = RUNNING, !.condition[p] = v]
  IN CASE tree[child] = "omitted" -> complete(s1, p, DONE_STATE)
       [] tree[child] = "handler" -> runHandler(s1, child, o)
       [] OTHER -> InnerBranchSwapped(s1, child, vals, o)

RECURSIVE executeIif(_, _, _, _)
\* the conditional at place p is executed: it evaluates its condition and
\* builds and runs the chosen branch only; an omitted branch is a success
executeIif(st, p, vals, o) ==
  LET v == vals[Len(p) + 1]
      child == Append(p, IF Truthy(v) THEN "T" ELSE "F")
      s1 == [st EXCEPT !.state[p] = RUNNING, !.condition[p] = v]
  IN CASE tree[child] = "omitted" -> complete(s1, p, DONE_STATE)
       [] tree[child] = "handler" -> runHandler(s1, child, o)
       [] OTHER -> executeIif(s1, child, vals, o)

IifBecomes(st, op) ==
  /\ iifState' = st.state
  /\ condition' = st.condition
  /\ handlerCalls' = st.calls
  /\ iifResults' = st.results
  /\ lastCall' = [op |-> op, threw |-> FALSE]
  /\ UNCHANGED <<DEV, threadVars, eventVars, resolverVars, factoryVars, tree>>

\* the owner of the outermost conditional executes it
IifExecute ==
  \E vals \in [1..2 -> Values], o \in {"done", "fail", "async"} :
    /\ iifState[Root] = NOT_STARTED
    /\ IifBecomes(executeIif(CurIif, Root, vals, o), "_execute")

\* a branch handler that returned without signalling signals
IifSignal ==
  \E p \in Places, sig \in {"done", "fail"} :
    /\ tree[p] = "handler"
    /\ iifState[p] = RUNNING
    /\ IifBecomes(complete(CurIif, p, IF sig = "done" THEN DONE_STATE ELSE FAILED),
                  "signal")

IifInit ==
  /\ tree \in Trees
  /\ iifState = [p \in Places |-> NOT_STARTED]
  /\ condition = [p \in IifPlaces |-> "unevaluated"]
  /\ handlerCalls = <<>>
  /\ iifResults = <<>>

----------------------------------------------------------------------------
(* RingaEvent.lastPromiseResult and lastPromiseError,                       *)
(* src/unnamed/part_000:225-272                                             *)

\* the events of a causal chain, oldest first
Chain == 1..MaxChain

\* what a promise may settle with: JavaScript values by their source text
PromiseValues == {"0", "'a'"}

NotRead == [event |-> Undefined, value |-> "undefined"]

(* get lastPromiseResult, part_000:235-245 *)
RECURSIVE lastPromiseResult(_)
lastPromiseResult(i) ==
  IF Truthy(_lastPromiseResult[i])
    THEN _lastPromiseResult[i]
    ELSE IF lastEvent[i] # Undefined
           THEN lastPromiseResult(lastEvent[i])
           ELSE "undefined"

(* get lastPromiseError, part_000:262-272 *)
RECURSIVE lastPromiseError(_)
lastPromiseError(i) ==
  IF Truthy(_lastPromiseError[i])
    THEN _lastPromiseError[i]
    ELSE IF lastEvent[i] # Undefined
           THEN lastPromiseError(lastEvent[i])
           ELSE "undefined"

\* an executor that dispatches an event records the event that caused it
SetLastEvent ==
  \E i \in Chain, j \in Chain :
    /\ j < i
    /\ lastEvent[i] = Undefined
    /\ lastEvent' = [lastEvent EXCEPT ![i] = j]
    /\ lastCall' = [op |-> "set lastEvent", threw |-> FALSE]
    /\ UNCHANGED <<_lastPromiseResult, _lastPromiseError, returned, promiseRest>>

(* set lastPromiseResult, part_000:225-227 *)
SetLastPromiseResult ==
  \E i \in Chain, value \in PromiseValues :
    /\ _lastPromiseResult[i] # value
    /\ _lastPromiseResult' = [_lastPromiseResult EXCEPT ![i] = value]
    /\ lastCall' = [op |-> "set lastPromiseResult", threw |-> FALSE]
    /\ UNCHANGED <<_lastPromiseError, lastEvent, returned, promiseRest>>

(* set lastPromiseError, part_000:252-254 *)
SetLastPromiseError ==
  \E i \in Chain, value \in PromiseValues :
    /\ _lastPromiseError[i] # value
    /\ _lastPromiseError' = [_lastPromiseError EXCEPT ![i] = value]
    /\ lastCall' = [op |-> "set lastPromiseError", threw |-> FALSE]
    /\ UNCHANGED <<_lastPromiseResult, lastEvent, returned, promiseRest>>

\* a read of event.lastPromiseResult
GetLastPromiseResult ==
  \E i \in Chain :
    /\ returned' = [event |-> i, value |-> lastPromiseResult(i)]
    /\ lastCall' = [op |-> "get lastPromiseResult", threw |-> FALSE]
    /\ UNCHANGED <<_lastPromiseResult, _lastPromiseError, lastEvent, promiseRest>>

\* a read of event.lastPromiseError
GetLastPromiseError ==
  \E i \in Chain :
    /\ returned' = [event |-> i, value |-> lastPromiseError(i)]
    /\ lastCall' = [op |-> "get lastPromiseError", threw |-> FALSE]
    /\ UNCHANGED <<_lastPromiseResult, _lastPromiseError, lastEvent, promiseRest>>

----------------------------------------------------------------------------
ThreadInit ==
  /\ all = <<>>
  /\ index = Undefined
  /\ running = FALSE
  /\ ringaEvent = 0
  /\ doneHandler = 0
  /\ failHandler = 0
  /\ error = NoThreadError
  /\ factoryLen \in 0..MaxN
  /\ state = <<>>
  /\ destroyedExecutors = {}
  /\ timers = 0
  /\ doneCalls = <<>>
  /\ failCalls = <<>>
  /\ execLog = <<>>
  /\ consoleErrors = 0
  /\ fatals = {}
  /\ killed = "no"
  /\ runs = 0
  /\ destroyed = FALSE

EventInit ==
  /\ dispatched = FALSE
  /\ catchers = <<>>
  /\ _catchers = <<>>
  /\ caught = FALSE
  /\ errors = <<>>
  /\ dispatchedEvents = <<>>
  /\ deliveries = 0
  /\ nonFatalErrors = {}
  /\ listeners = [type \in {DONE, FAIL} |-> <<>>]
  /\ listenerCalls = <<>>
  /\ lastController = NoController
  /\ lastListener = [type |-> "", handler |-> NoHandler]
  /\ _lastPromiseResult = [i \in Chain |-> "undefined"]
  /\ _lastPromiseError = [i \in Chain |-> "undefined"]
  /\ lastEvent = [i \in Chain |-> Undefined]
  /\ returned = NotRead

\* an event dispatched without values of its own
EventIdle == EventInit /\ detail = [k \in {"ringaEvent"} |-> "this"]

\* a factory that is not used: its executee is the name of an event
FactoryInit ==
  /\ argNames = FALSE
  /\ built = <<>>

FactoryIdle == FactoryInit /\ executee = Primitive("string")

\* a thread that is not run
ThreadIdle == ThreadInit /\ factoryLen = 1

\* a conditional with both branches omitted
IifIdle == IifInit /\ tree = [p \in Places |-> IF p = Root THEN "iif" ELSE "omitted"]

Init ==
  /\ DEV \in BOOLEAN
  /\ ThreadInit
  /\ EventIdle
  /\ ResolverInit
  /\ FactoryIdle
  /\ IifIdle
  /\ lastCall = [op |-> "new", threw |-> FALSE]

vars == <<DEV, threadVars, eventVars, resolverVars, factoryVars, iifVars, lastCall>>

Run == \E o \in Outcomes : runs = 0 /\ run(o) /\ UNCHANGED <<DEV, eventVars, resolverVars, factoryVars, iifVars>>
Kill == kill /\ UNCHANGED <<DEV, eventVars, resolverVars, factoryVars, iifVars>>
Timeout == \E o \in Outcomes : timeout(o) /\ UNCHANGED <<DEV, eventVars, resolverVars, factoryVars, iifVars>>
Signal == \E e \in DOMAIN state, sig \in Signals : signal(e, sig) /\ UNCHANGED <<DEV, eventVars, resolverVars, factoryVars, iifVars>>

Next == Run \/ Kill \/ Timeout \/ Signal

Destroy == destroy /\ UNCHANGED <<DEV, eventVars, resolverVars, factoryVars, iifVars>>

\* a thread whose owner may be torn down while it runs
NextDestroy == Run \/ Timeout \/ Signal \/ Destroy

SpecDestroy == Init /\ [][NextDestroy]_vars

Spec == Init /\ [][Next]_vars

(* The thread under the scheduling the run time gives it: a timer that was  *)
(* set fires, and an executor that was started and has not signalled does   *)
(* signal.                                                                  *)
SpecLive == Init /\ [][Next]_vars /\ WF_vars(Timeout) /\ WF_vars(Signal)

(* A thread that its caller may run again at any time. *)
RunAgain == \E o \in Outcomes : runs < MaxRuns /\ run(o) /\ UNCHANGED <<DEV, eventVars, resolverVars, factoryVars, iifVars>>

NextRerun == RunAgain \/ Kill \/ Timeout \/ Signal

SpecRerun == Init /\ [][NextRerun]_vars

\* The callers of the event: application code dispatches it and may push an
\* error; a controller the bus delivered it to announces catching, failure,
\* uncatching and completion.
Dispatch ==
  /\ deliveries < MaxDeliveries
  /\ EventBecomes(dispatch(CurEvent), "dispatch")
  /\ UNCHANGED <<lastController, lastListener, DEV, threadVars, resolverVars, factoryVars, iifVars, nonFatalErrors>>

\* application code that dispatches an event once
DispatchOnce == ~dispatched /\ Dispatch

CaughtBy(c) ==
    /\ dispatched
    /\ Len(catchers) + Len(_catchers) < MaxCaught
    /\ EventBecomes(_caught(CurEvent, c), "_caught")
    /\ lastController' = c
    /\ UNCHANGED <<lastListener, DEV, threadVars, resolverVars, factoryVars, iifVars, nonFatalErrors>>

Caught == \E c \in Controllers : CaughtBy(c)

Uncatch ==
  \E c \in Controllers :
    /\ dispatched
    /\ Len(_catchers) < MaxCaught
    /\ EventBecomes(_uncatch(CurEvent, c), "_uncatch")
    /\ lastController' = c
    /\ UNCHANGED <<lastListener, DEV, threadVars, resolverVars, factoryVars, iifVars, nonFatalErrors>>

PushError ==
  \E e \in Errors :
    /\ Len(errors) < MaxPushed
    /\ EventBecomes(pushError(CurEvent, e), "fail")
    /\ UNCHANGED <<lastController, lastListener, DEV, threadVars, resolverVars, factoryVars, iifVars, nonFatalErrors>>

FailBy(c, e, fatal) ==
    /\ dispatched
    /\ Len(dispatchedEvents) < MaxEvents
    /\ Len(_catchers) < MaxCaught
    /\ EventBecomes(_fail(CurEvent, c, e, fatal), IF fatal THEN "_fail killed" ELSE "_fail")
    /\ nonFatalErrors' = IF fatal THEN nonFatalErrors ELSE nonFatalErrors \cup {e}
    /\ lastController' = c
    /\ UNCHANGED <<lastListener, DEV, threadVars, resolverVars, factoryVars, iifVars>>

Fail == \E c \in Controllers, e \in Errors, fatal \in BOOLEAN : FailBy(c, e, fatal)

DoneBy(c) ==
    /\ dispatched
    /\ Len(dispatchedEvents) < MaxEvents
    /\ Len(_catchers) < MaxCaught
    /\ EventBecomes(_done(CurEvent, c), "_done")
    /\ lastController' = c
    /\ UNCHANGED <<lastListener, DEV, threadVars, resolverVars, factoryVars, iifVars, nonFatalErrors>>

Done == \E c \in Controllers : DoneBy(c)

\* application code that fails an event once
PushErrorOnce == errors = <<>> /\ PushError

NextEvent == DispatchOnce \/ Caught \/ Uncatch \/ PushErrorOnce \/ Fail \/ Done

\* one event, with a thread that is not run
InitEvent == Init /\ ThreadIdle

SpecEvent == InitEvent /\ [][NextEvent]_vars

\* application code that may dispatch an event again
NextDispatch == Dispatch \/ Caught \/ PushError \/ Done

SpecDispatch == InitEvent /\ [][NextDispatch]_vars

----------------------------------------------------------------------------
(* Claims about the RingaEvent *)

\* this step appended a notification of the given type to the log
Emits(type) ==
  /\ Len(dispatchedEvents') = Len(dispatchedEvents) + 1
  /\ dispatchedEvents'[Len(dispatchedEvents')].type = type

\* C3: DONE is never emitted while a controller is still in the in-flight
\* list: with two controllers caught, not before both have completed.
C3_DoneOnlyWhenNoneInFlight == [][Emits(DONE) => catchers' = <<>>]_vars

\* both controllers were caught together, both completed, and DONE was emitted
C3_Witness ==
  /\ catchers = <<>>
  /\ _catchers = <<1, 2>>
  /\ dispatchedEvents = <<[type |-> DONE, error |-> NoError]>>

\* controllers 1 and 2 were each marked caught once, and no other
BothCaught ==
  /\ Len(catchers) + Len(_catchers) = 2
  /\ has(catchers \o _catchers, 1)
  /\ has(catchers \o _catchers, 2)

\* C4: when a controller has reported a non-fatal failure with error e, the
\* report of done that empties the in-flight list emits FAIL carrying e, and
\* not DONE.
C4_FailAfterNonFatalFailure ==
  [][(lastCall'.op = "_done" /\ BothCaught /\ nonFatalErrors # {}
        /\ catchers # <<>> /\ catchers' = <<>>) =>
       /\ Emits(FAIL)
       /\ dispatchedEvents'[Len(dispatchedEvents')].error \in nonFatalErrors]_vars

\* C5: the first dispatch sets the dispatched flag, every later dispatch
\* fails without delivering the event again, and the flag never returns to
\* false.
C5_DispatchOnce ==
  /\ [][(lastCall'.op = "dispatch" /\ ~dispatched) =>
          (dispatched' /\ ~lastCall'.threw /\ deliveries' = deliveries + 1)]_vars
  /\ [][(lastCall'.op = "dispatch" /\ dispatched) =>
          (lastCall'.threw /\ deliveries' = deliveries)]_vars
  /\ [][dispatched => dispatched']_vars

\* C5 as amended: the double-dispatch error is raised by a development build.
C5_DispatchOnceInDev ==
  /\ [][(lastCall'.op = "dispatch" /\ ~dispatched) =>
          (dispatched' /\ ~lastCall'.threw /\ deliveries' = deliveries + 1)]_vars
  /\ [][(DEV /\ lastCall'.op = "dispatch" /\ dispatched) =>
          (lastCall'.threw /\ deliveries' = deliveries)]_vars
  /\ [][dispatched => dispatched']_vars

\* a development build refused a second dispatch
C5_Witness ==
  /\ DEV
  /\ dispatched
  /\ deliveries = 1
  /\ lastCall = [op |-> "dispatch", threw |-> TRUE]

\* a conditional run by its owner
InitIif ==
  /\ DEV \in BOOLEAN
  /\ ThreadIdle
  /\ EventIdle
  /\ ResolverInit
  /\ FactoryIdle
  /\ IifInit
  /\ lastCall = [op |-> "new", threw |-> FALSE]

NextIif == IifExecute \/ IifSignal

SpecIif == InitIif /\ [][NextIif]_vars

\* Application code registers listeners on the event it dispatched.
AddListener ==
  \E type \in {DONE, FAIL}, h \in Handlers :
    /\ Len(listeners[type]) < MaxListeners \/ has(listeners[type], Listener(h))
    /\ EventBecomes(addListener(CurEvent, type, Listener(h)), "addListener")
    /\ lastListener' = [type |-> type, handler |-> h]
    /\ UNCHANGED <<lastController, DEV, threadVars, resolverVars, factoryVars, iifVars,
                   nonFatalErrors>>

AddDoneListener ==
  \E h \in Handlers :
    /\ Len(listeners[DONE]) < MaxListeners
    /\ EventBecomes(addDoneListener(CurEvent, h), "addDoneListener")
    /\ lastListener' = [type |-> DONE, handler |-> h]
    /\ UNCHANGED <<lastController, DEV, threadVars, resolverVars, factoryVars, iifVars,
                   nonFatalErrors>>

AddFailListener ==
  \E h \in Handlers :
    /\ Len(listeners[FAIL]) < MaxListeners
    /\ EventBecomes(addFailListener(CurEvent, h), "addFailListener")
    /\ lastListener' = [type |-> FAIL, handler |-> h]
    /\ UNCHANGED <<lastController, DEV, threadVars, resolverVars, factoryVars, iifVars,
                   nonFatalErrors>>

Then ==
  \E resolve \in Handlers, reject \in Handlers \cup {NoHandler} :
    /\ Len(listeners[DONE]) < MaxListeners
    /\ Len(listeners[FAIL]) < MaxListeners
    /\ EventBecomes(then(CurEvent, resolve, reject), "then")
    /\ lastListener' = [type |-> DONE, handler |-> resolve]
    /\ UNCHANGED <<lastController, DEV, threadVars, resolverVars, factoryVars, iifVars,
                   nonFatalErrors>>

\* one controller catches the event once, reports the failures of its
\* executors, none of them fatal, and reports that it is done
CaughtByOne == ~caught /\ CaughtBy(1)
FailByOne == \E e \in Errors : FailBy(1, e, FALSE)
DoneByOne == has(catchers, 1) /\ DoneBy(1)

\* an event with listeners for its notifications
NextListen == DispatchOnce \/ CaughtByOne \/ FailByOne \/ DoneByOne \/ AddListener

SpecListen == InitEvent /\ [][NextListen]_vars

\* an event, dispatched with any value bag, whose completion is awaited
InitAwait ==
  /\ DEV \in BOOLEAN
  /\ ThreadIdle
  /\ EventInit
  /\ detail \in Details
  /\ ResolverInit
  /\ FactoryIdle
  /\ IifIdle
  /\ lastCall = [op |-> "new", threw |-> FALSE]

NextAwait == DispatchOnce \/ CaughtByOne \/ DoneByOne \/ AddDoneListener
               \/ AddFailListener \/ Then

SpecAwait == InitAwait /\ [][NextAwait]_vars

(* The events of a causal chain whose promise results are set and read. *)
InitPromise ==
  /\ DEV \in BOOLEAN
  /\ ThreadIdle
  /\ EventIdle
  /\ ResolverInit
  /\ FactoryIdle
  /\ IifIdle
  /\ lastCall = [op |-> "new", threw |-> FALSE]

NextPromise == SetLastEvent \/ SetLastPromiseResult \/ SetLastPromiseError
                 \/ GetLastPromiseResult \/ GetLastPromiseError

SpecPromise == InitPromise /\ [][NextPromise]_vars

\* an executor of a controller resolving argument names against an event
\* dispatched with any value bag
InitResolve ==
  /\ DEV \in BOOLEAN
  /\ ThreadIdle
  /\ EventInit
  /\ detail \in Details
  /\ ResolverInit
  /\ FactoryIdle
  /\ IifIdle
  /\ lastCall = [op |-> "new", threw |-> FALSE]

NextResolve == BuildArguments \/ Inject

SpecResolve == InitResolve /\ [][NextResolve]_vars

\* the last call was one that uncatches its controller: _uncatch, _done or
\* a _fail with the kill flag
Uncatching == lastCall'.op \in {"_uncatch", "_done", "_fail killed"}

\* C16: _uncatch, _done and a fatal _fail for a controller that is not in
\* catchers fail, emit no notification and leave catchers and _catchers as
\* they were.
C16_ControllerNotFound ==
  [][(Uncatching /\ ~has(catchers, lastController')) =>
       /\ lastCall'.threw
       /\ dispatchedEvents' = dispatchedEvents
       /\ catchers' = catchers
       /\ _catchers' = _catchers]_vars

\* C16 as amended: the controller-not-found error is raised by a development
\* build.
C16_ControllerNotFoundInDev ==
  [][(DEV /\ Uncatching /\ ~has(catchers, lastController')) =>
       /\ lastCall'.threw
       /\ dispatchedEvents' = dispatchedEvents
       /\ catchers' = catchers
       /\ _catchers' = _catchers]_vars

\* in a development build controller 1 reported done a second time while
\* controller 2 was still handling the event, and was refused
C16_Witness ==
  /\ DEV
  /\ lastCall = [op |-> "_done", threw |-> TRUE]
  /\ lastController = 1
  /\ catchers = <<2>>
  /\ _catchers = <<1>>
  /\ dispatchedEvents = <<>>

\* C17: no controller is in catchers and in _catchers at once.
C17_NotInBothLists ==
  \A c \in Controllers : ~(has(catchers, c) /\ has(_catchers, c))

\* C18: when the only controller in catchers reports done on an event with
\* errors pushed, _done emits FAIL, which is logged, and returns normally.
C18_FailWhenErrorsPushed ==
  [][(lastCall'.op = "_done" /\ catchers = <<lastController'>> /\ errors # <<>>) =>
       /\ Emits(FAIL)
       /\ ~lastCall'.threw]_vars

----------------------------------------------------------------------------
(* Claims about the listeners of the RingaEvent *)

\* every name the handler declares is a key of the value bag
Resolvable(handler) ==
  \A i \in 1..Len(getArgNames(handler)) : hasOwnProperty(detail, getArgNames(handler)[i])

\* C13: when DONE is emitted, each handler registered through addDoneListener
\* or then is invoked once, in registration order, and when the names of all
\* of them are resolvable the emitting call does not fail.
C13_DoneListenersInvoked ==
  [][(Emits(DONE) /\ \A i \in 1..Len(listeners[DONE]) : Resolvable(listeners[DONE][i].handler)) =>
       /\ ~lastCall'.threw
       /\ Len(listenerCalls') = Len(listenerCalls) + Len(listeners[DONE])
       /\ \A i \in 1..Len(listeners[DONE]) :
            listenerCalls'[Len(listenerCalls) + i].handler = listeners[DONE][i].handler]_vars

\* the number of times the function is registered for the type
Registered(ls, type, handler) ==
  Cardinality({i \in 1..Len(ls[type]) : ls[type][i] = Listener(handler)})

\* C14: addListener with a function already registered for the type fails
\* and changes no registration; with a function not registered for the type,
\* whether registered for the other type or not, it succeeds and registers
\* it for that type only; either way the function is then registered once.
C14_NoDuplicateListener ==
  [][lastCall'.op = "addListener" =>
       LET type == lastListener'.type
           handler == lastListener'.handler
       IN /\ Registered(listeners, type, handler) > 0
               => (lastCall'.threw /\ listeners' = listeners)
          /\ Registered(listeners, type, handler) = 0
               => /\ ~lastCall'.threw
                  /\ listeners' = [listeners EXCEPT ![type] = Append(@, Listener(handler))]
          /\ Registered(listeners', type, handler) = 1]_vars

\* h1 was refused for DONE, for which it and h2 are registered, h1 also
\* being registered for FAIL
C14_Witness ==
  /\ lastCall = [op |-> "addListener", threw |-> TRUE]
  /\ lastListener = [type |-> DONE, handler |-> "h1"]
  /\ listeners[DONE] = <<Listener("h1"), Listener("h2")>>
  /\ listeners[FAIL] = <<Listener("h1")>>

\* C15: a successful addListener calls the new function once for each logged
\* notification of its type, in the order of the log and with the logged
\* notification, and with no notification of the other type.
C15_ReplayOnLateListener ==
  [][(lastCall'.op = "addListener" /\ ~lastCall'.threw) =>
       LET type == lastListener'.type
           past == SelectSeq(dispatchedEvents, LAMBDA d : d.type = type)
       IN listenerCalls' = listenerCalls \o
            [i \in 1..Len(past) |-> [handler |-> lastListener'.handler, with |-> <<past[i]>>]]]_vars

\* two failures were logged before h1 was registered for FAIL, and h1 was
\* called with each of them, in order
C15_Witness ==
  /\ lastCall = [op |-> "addListener", threw |-> FALSE]
  /\ dispatchedEvents = <<[type |-> FAIL, error |-> "e1"], [type |-> FAIL, error |-> "e2"]>>
  /\ listenerCalls = <<[handler |-> "h1", with |-> <<[type |-> FAIL, error |-> "e1"]>>],
                       [handler |-> "h1", with |-> <<[type |-> FAIL, error |-> "e2"]>>]>>

----------------------------------------------------------------------------
(* Claims about the argument resolver *)

\* C12: for every declared name the resolver returns the value-bag entry when
\* the bag has that key; otherwise the controller's injection of that name
\* when there is one; otherwise the well-known injectable of that name.
C12_BagThenInjection ==
  [][(lastCall'.op = "buildArguments" /\ ~lastCall'.threw) =>
       /\ Len(args') = Len(expectedArguments')
       /\ \A i \in 1..Len(expectedArguments') :
            LET n == expectedArguments'[i] IN
            /\ hasOwnProperty(detail, n) => args'[i] = detail[n]
            /\ (~hasOwnProperty(detail, n) /\ hasOwnProperty(injections, n))
                 => args'[i] = injections[n]
            /\ (~hasOwnProperty(detail, n) /\ ~hasOwnProperty(injections, n))
                 => (n \in WellKnown /\ args'[i] = n)]_vars

\* the controller injects both names and the bag has one of them: the bag's
\* value is returned for that one and the controller's for the other
C12_Witness ==
  /\ lastCall = [op |-> "buildArguments", threw |-> FALSE]
  /\ hasOwnProperty(detail, "someInjection")
  /\ ~hasOwnProperty(detail, "someProp")
  /\ hasOwnProperty(injections, "someInjection")
  /\ hasOwnProperty(injections, "someProp")
  /\ expectedArguments = <<"someInjection", "someProp">>
  /\ args = <<detail["someInjection"], injections["someProp"]>>

\* a factory made for any executee
InitBuild ==
  /\ DEV \in BOOLEAN
  /\ ThreadIdle
  /\ EventIdle
  /\ ResolverInit
  /\ FactoryInit
  /\ executee \in Executees
  /\ IifIdle
  /\ lastCall = [op |-> "new", threw |-> FALSE]

NextBuild == Build

SpecBuild == InitBuild /\ [][NextBuild]_vars

----------------------------------------------------------------------------
(* Claims about the CommandFactory *)

\* the executee has a then that can be called
Thenable == ~executee.nullish /\ executee.then = "function"

\* C19: every build returns the variant of the first row of the table that
\* the executee's shape matches: a string an event wrapper made from a new
\* event factory; a value with a callable then a promise wrapper; a command
\* constructor an instance of it; another function a function wrapper; an
\* array a parallel wrapper; an event factory an event wrapper made from it.
C19_VariantByShape ==
  \A i \in 1..Len(built) :
    LET b == built[i] IN
    /\ executee.type = "string"
         => (b.class = "CommandEventWrapper" /\ b.from = "new RingEventFactory(executee)")
    /\ Thenable => b.class = "CommandPromiseWrapper"
    /\ (executee.type = "function" /\ ~Thenable /\ executee.command)
         => b.class = "executee"
    /\ (executee.type = "function" /\ ~Thenable /\ ~executee.command)
         => b.class = "CommandFunctionWrapper"
    /\ (executee.array /\ ~Thenable) => b.class = "CommandsParallelWrapper"
    /\ (executee.factory /\ ~Thenable)
         => (b.class = "CommandEventWrapper" /\ b.from = "executee")

\* a command constructor was built twice: two instances of it, its argument
\* names read at the first build and reused at the second
C19_Witness ==
  /\ executee.command
  /\ built = <<Returned("executee", "introspected"), Returned("executee", "cached")>>

\* the executee matches no row of the table
Unsupported ==
  \/ executee.nullish
  \/ executee.type \in {"number", "boolean", "symbol"}
  \/ /\ executee.type = "object"
     /\ ~executee.array
     /\ ~executee.factory
     /\ executee.then # "function"

\* C20: every build of an executee that matches no row of the table throws
\* the not-supported error, whose message names the executee's type.
C20_UnsupportedExecutee ==
  \A i \in 1..Len(built) :
    Unsupported => (built[i].threw = NotSupported /\ built[i].names = executee.type)

----------------------------------------------------------------------------
(* Claims about the conditional executor *)

Ran(p) == iifState[p] # NOT_STARTED

\* the number of times the executor at place p was run as a branch handler
TimesCalled(p) == Cardinality({i \in 1..Len(handlerCalls) : handlerCalls[i] = p})

\* C10: an executed conditional with condition p, truthy branch A and falsy
\* branch B runs A and not B when p is truthy, B and not A when p is falsy,
\* each at most once; when the chosen branch is omitted neither runs and the
\* conditional is done at once.
C10_ExactlyOneBranch ==
  \A p \in IifPlaces :
    (tree[p] = "iif" /\ Ran(p)) =>
      LET A == Append(p, "T")
          B == Append(p, "F")
          chosen == IF Truthy(condition[p]) THEN A ELSE B
          other == IF Truthy(condition[p]) THEN B ELSE A
      IN /\ ~Ran(other)
         /\ tree[chosen] # "omitted" => Ran(chosen)
         /\ tree[chosen] = "omitted" => (~Ran(chosen) /\ iifState[p] = DONE_STATE)
         /\ TimesCalled(A) + TimesCalled(B) <= 1

\* a conditional with both branches given ran its falsy branch only
C10_Witness ==
  /\ tree[<<"T">>] = "handler"
  /\ tree[<<"F">>] = "handler"
  /\ condition[Root] = "0"
  /\ handlerCalls = << <<"F">> >>
  /\ iifState[Root] = DONE_STATE

\* a conditional whose chosen branch is omitted is done without running any
C10_WitnessOmitted ==
  /\ tree[<<"T">>] = "omitted"
  /\ tree[<<"F">>] = "handler"
  /\ Truthy(condition[Root])
  /\ condition[Root] # "unevaluated"
  /\ handlerCalls = <<>>
  /\ iifResults = <<DONE_STATE>>

\* the branch of the conditional at place p that its condition selects
Chosen(p) == Append(p, IF Truthy(condition[p]) THEN "T" ELSE "F")

\* all four branches of the two nested conditionals are handlers
FourHandlers ==
  /\ tree[<<"T">>] = "iif"
  /\ tree[<<"F">>] = "iif"
  /\ \A p \in Places : Len(p) = 2 => tree[p] = "handler"

\* C11: when the branch the outer condition selects is itself a conditional,
\* the inner condition is evaluated and the only handler ever invoked is the
\* one the inner condition selects in that branch, invoked once; the handlers
\* of the three other branches are never invoked.
C11_NestedSelectsOne ==
  (Ran(Root) /\ tree[Chosen(Root)] = "iif") =>
    LET inner == Chosen(Root) IN
    /\ condition[inner] # "unevaluated"
    /\ handlerCalls = (IF tree[Chosen(inner)] = "handler" THEN << Chosen(inner) >> ELSE <<>>)
    /\ \A q \in Places : (Len(q) = 2 /\ q # Chosen(inner)) => ~Ran(q)

\* outer condition falsy, inner condition truthy, four handlers: only the
\* truthy handler of the falsy branch has run
C11_Witness ==
  /\ FourHandlers
  /\ ~Truthy(condition[Root])
  /\ condition[<<"F">>] = "1"
  /\ handlerCalls = << <<"F", "T">> >>
  /\ iifResults = <<DONE_STATE>>

----------------------------------------------------------------------------
(* Claims about the Thread *)

FatalReported == \E k \in 1..Len(failCalls) : failCalls[k].kill

\* C1: a run whose executors all signal done executes every executor of the
\* factory list exactly once, in declaration order, and then invokes onDone
\* exactly once.
C1_RunsAllInOrderThenDone ==
  (runs = 1 /\ factoryLen >= 1 /\ failCalls = <<>> /\ doneCalls # <<>>)
    => (execLog = [i \in 1..factoryLen |-> i] /\ Len(doneCalls) = 1)

\* C2: at most one executor of a pipeline is RUNNING in any reachable state.
C2_AtMostOneRunning == Cardinality(RunningExecutors) <= 1

\* a later executor is running after an earlier one of the same run finished
C2_Witness ==
  \E e \in RunningExecutors :
    \E f \in DOMAIN state : f < e /\ state[f] \in {DONE_STATE, FAILED}

\* C6: a non-fatal failure of the executor at position i invokes onFail once
\* for it, and the pipeline then executes executor i+1 if it exists (onDone is
\* not invoked before that), otherwise invokes onDone.
C6_NonFatalFailContinues ==
  \A k \in 1..Len(failCalls) :
    LET e == failCalls[k].error.of IN
    (runs = 1 /\ e >= 1 /\ ~failCalls[k].kill) =>
      /\ \A j \in 1..Len(failCalls) : failCalls[j].error = failCalls[k].error => j = k
      /\ (e < factoryLen /\ doneCalls # <<>>) => has(execLog, e + 1)
      /\ e = factoryLen => doneCalls # <<>>

\* C7: after an executor signals a fatal failure, onFail has been invoked with
\* the kill flag set, the index never advances again, no further executor is
\* executed and onDone is not invoked.
C7_FatalStops ==
  /\ [](\A e \in fatals : \E k \in 1..Len(failCalls) :
           failCalls[k].error = ErrorOf(e) /\ failCalls[k].kill)
  /\ [](fatals # {} => timers = 0)
  /\ [][fatals # {} => /\ index' = index
                       /\ execLog' = execLog
                       /\ doneCalls' = doneCalls
                       /\ timers' = timers]_vars

\* a fatal failure at a position after the first, with an executor never started
C7_Witness ==
  /\ index >= 1
  /\ fatals # {}
  /\ \E e \in DOMAIN state : state[e] = NOT_STARTED
  /\ doneCalls = <<>>

\* C8: after kill() on a pipeline with an executor in flight, no further
\* executor is executed, and the in-flight executor's later done/fail neither
\* advances the index, nor schedules a step, nor invokes onDone.
C8_KillDiscards ==
  [][killed = "inFlight" => /\ index' = index
                            /\ execLog' = execLog
                            /\ doneCalls' = doneCalls
                            /\ timers' = timers]_vars

\* a run has started and has reported neither onDone nor a fatal onFail
Active == runs >= 1 /\ doneCalls = <<>> /\ ~FatalReported

\* C9: run on a pipeline that is already running fails and leaves the
\* container, the index and the stored callbacks unchanged.
C9_RunWhileRunningFails ==
  [][(lastCall'.op = "run" /\ Active) =>
        /\ lastCall'.threw
        /\ all' = all
        /\ index' = index
        /\ doneHandler' = doneHandler
        /\ failHandler' = failHandler]_vars

----------------------------------------------------------------------------
(* buildArgumentsFromRingaEvent: a name that nothing provides *)

\* the declared names that neither the bag nor the injectable names provide
Unprovided(expected) ==
  {i \in 1..Len(expected) :
     /\ ~hasOwnProperty(detail, expected[i])
     /\ ~hasOwnProperty(injections, expected[i])
     /\ expected[i] \notin WellKnown}

(* C21: when a declared name is in neither the value bag nor the injectable  *)
(* names, the call throws an Error that names the first such name and the    *)
(* whole list of declared names, and no array is returned; when every name   *)
(* resolves, the array has one value per declared name, in the order of the  *)
(* declaration.                                                              *)
C21_MissingNameThrows ==
  [][lastCall'.op = "buildArguments" =>
       LET expected == expectedArguments'
           missing == Unprovided(expected)
       IN IF missing # {}
            THEN /\ lastCall'.threw
                 /\ message'.argName \in {expected[i] : i \in missing}
                 /\ \A i \in missing :
                      \E j \in missing : j <= i /\ expected[j] = message'.argName
                 /\ message'.expectedArguments = expected
                 /\ args' = <<>>
            ELSE /\ ~lastCall'.threw
                 /\ message' = NoMessage
                 /\ DOMAIN args' = 1..Len(expected)
                 /\ \A i \in 1..Len(expected) :
                      args'[i] \in {v \in {detail[k] : k \in DOMAIN detail}
                                           \cup {injections[k] : k \in DOMAIN injections}
                                           \cup WellKnown :
                                      \/ /\ hasOwnProperty(detail, expected[i])
                                         /\ v = detail[expected[i]]
                                      \/ /\ hasOwnProperty(injections, expected[i])
                                         /\ v = injections[expected[i]]
                                      \/ v = expected[i]}]_vars

\* the first declared name resolves and the second is provided by nothing: the
\* call throws naming the second and the two declared names, returning nothing
C21_Witness ==
  /\ lastCall = [op |-> "buildArguments", threw |-> TRUE]
  /\ expectedArguments = <<"someInjection", "someProp">>
  /\ hasOwnProperty(detail, "someInjection")
  /\ ~hasOwnProperty(detail, "someProp")
  /\ ~hasOwnProperty(injections, "someProp")
  /\ message = Message("someProp", <<"someInjection", "someProp">>)
  /\ args = <<>>

----------------------------------------------------------------------------
(* Thread: a continuation that fires after the thread was destroyed *)

(* C22: when an executor signals done or fail on a thread that was          *)
(* destroyed and whose executors were evicted, the handler does nothing: it *)
(* throws nothing, leaves the index alone, sets no timer and calls neither  *)
(* onDone nor onFail.                                                       *)
C22_LateSignalIsNoOp ==
  [][(destroyed /\ all = <<>> /\ lastCall'.op = "signal") =>
       /\ ~lastCall'.threw
       /\ index' = index
       /\ timers' = timers
       /\ doneCalls' = doneCalls
       /\ failCalls' = failCalls]_vars

----------------------------------------------------------------------------
(* RingaEvent: the last promise result and error along a causal chain *)

(* C23: a read of lastPromiseResult (and of lastPromiseError) returns the   *)
(* value that was set on the event read, whatever that value is, and only   *)
(* when none was set the value the event that caused it returns, or         *)
(* undefined when no event caused it.                                       *)
C23_OwnValueFirst ==
  [][LET i == returned'.event IN
     /\ lastCall'.op = "get lastPromiseResult" =>
          returned'.value =
            IF _lastPromiseResult[i] # "undefined" THEN _lastPromiseResult[i]
            ELSE IF lastEvent[i] # Undefined THEN lastPromiseResult(lastEvent[i])
            ELSE "undefined"
     /\ lastCall'.op = "get lastPromiseError" =>
          returned'.value =
            IF _lastPromiseError[i] # "undefined" THEN _lastPromiseError[i]
            ELSE IF lastEvent[i] # Undefined THEN lastPromiseError(lastEvent[i])
            ELSE "undefined"]_vars

----------------------------------------------------------------------------
(* Thread: the next executor is started from a timer *)

(* C24: the handler call in which an executor signals done or a non-fatal   *)
(* failure, or throws, never starts the executor after it: a call starts at *)
(* most one executor, a continuation starts none, any executor after the    *)
(* first is started by the timer callback, and a call that advances the     *)
(* index onto a remaining executor leaves a timer pending for it.           *)
C24_AdvancementDeferred ==
  [][/\ Len(execLog') <= Len(execLog) + 1
     /\ lastCall'.op = "signal" => execLog' = execLog
     /\ (execLog' # execLog /\ execLog # <<>>) => lastCall'.op = "timeout"
     /\ (index >= 0 /\ index' # index /\ index' < Len(all')) => timers' >= 1]_vars

\* the first executor signalled done from a later turn: the index is on the
\* second, which is not started, and one timer is pending
C24_Witness ==
  /\ lastCall.op = "signal"
  /\ factoryLen >= 2
  /\ index = 1
  /\ execLog = <<1>>
  /\ state[1] = DONE_STATE
  /\ state[2] = NOT_STARTED
  /\ timers = 1
  /\ doneCalls = <<>>

----------------------------------------------------------------------------
(* Thread: eviction of executors from the container *)

(* C25: when the executor at a position after the first has been started,   *)
(* the executor at the position before it is no longer in the container,    *)
(* and once onDone was invoked after a run in which nothing failed the      *)
(* container holds no executor.                                             *)
C25_ContainerEmptied ==
  runs = 1 =>
    /\ \A k \in 1..Len(execLog) : execLog[k] > 1 => ~has(all, execLog[k] - 1)
    /\ (doneCalls # <<>> /\ failCalls = <<>>) => all = <<>>

----------------------------------------------------------------------------
(* Thread: an executor whose _execute throws *)

(* C26: when the _execute of an executor throws, onFail is invoked once     *)
(* with the error thrown and without the kill flag, the index moves on by   *)
(* one, and the thread continues: a timer is set for the next executor when *)
(* one exists in the factory list, and onDone is invoked when none does.    *)
C26_ThrowIsNonFatalFail ==
  [][\A e \in DOMAIN state' :
       (/\ runs' = 1
        /\ \E k \in 1..Len(failCalls') : failCalls'[k].error = Raised(e)
        /\ ~\E k \in 1..Len(failCalls) : failCalls[k].error = Raised(e)) =>
         /\ failCalls' = Append(failCalls, [handler |-> failHandler',
                                            error |-> Raised(e), kill |-> FALSE])
         /\ index' = IF lastCall'.op = "run" THEN 1 ELSE index + 1
         /\ IF e < factoryLen
              THEN timers' >= 1 /\ doneCalls' = doneCalls
              ELSE doneCalls' = Append(doneCalls, doneHandler')]_vars

----------------------------------------------------------------------------
(* RingaEvent: the same handler given twice to addDoneListener *)

\* the listeners of DONE that addDoneListener made for the handler
Wrapping(ls, handler) ==
  {i \in 1..Len(ls[DONE]) : ls[DONE][i].handler = handler /\ ls[DONE][i].arrow # 0}

(* C27: addDoneListener (and then, with a done handler) given a handler it  *)
(* was given before throws as addListener does for a listener it has, and   *)
(* registers nothing, so no handler is behind two listeners of DONE.        *)
C27_NoDuplicateDoneListener ==
  [][lastCall'.op \in {"addDoneListener", "then"} =>
       /\ Wrapping(listeners, lastListener'.handler) # {}
            => (lastCall'.threw /\ listeners' = listeners)
       /\ \A h \in Handlers : Cardinality(Wrapping(listeners', h)) <= 1]_vars

----------------------------------------------------------------------------
(* RingaEvent: how often DONE is emitted *)

(* C28: whatever _caught, _done and _fail calls are made on one event, with *)
(* a controller that catches it after another has reported done among them, *)
(* DONE is emitted at most once.  Stated for a development build, where a   *)
(* report by a controller that is not handling the event throws.            *)
C28_DoneAtMostOnce ==
  DEV => Cardinality({i \in 1..Len(dispatchedEvents) :
                        dispatchedEvents[i].type = DONE}) <= 1

----------------------------------------------------------------------------
(* Thread: a run ends *)

(* C29: when every executor that is started signals and every timer that    *)
(* is set fires, a run of a thread with at least one executor leads to      *)
(* onDone being invoked or to onFail being invoked with the kill flag.      *)
C29_RunEnds == (runs = 1 /\ factoryLen >= 1) ~> (doneCalls # <<>> \/ FatalReported)

\* a two-executor thread got to onDone through a timer and a later signal
C29_Witness ==
  /\ runs = 1
  /\ factoryLen >= 2
  /\ lastCall.op = "signal"
  /\ Len(execLog) >= 2
  /\ doneCalls # <<>>

====
